---- MODULE Spec2Model ----
(***************************************************************************)
(* Model of bin/dl-sentiwords.py: the script that learns sentiment         *)
(* specific word embeddings.  The script is one sequential computation; pc *)
(* is its position.  The deepnl library it drives (TweetReader,            *)
(* Embeddings, Converter, SentimentTrainer) is not part of the source      *)
(* modelled here; its operations follow the interface contracts of the     *)
(* specification (sections 4 and 6) and are marked as such.                *)
(***************************************************************************)
EXTENDS Integers, Sequences, FiniteSets, TLC

(* ------------------------------ bounds --------------------------------- *)
\* corpus sizes 1..MaxSentences
MaxSentences == 2
\* small epoch counts 0..MaxEpochs, plus one long run of BigEpochs epochs
MaxEpochs == 2
BigEpochs == 5001
\* learning rates 1..MaxLR, in units of the default 0.001
MaxLR == 2
\* vocabulary tokens 1..NumTokens (one embedding row each)
NumTokens == 2
\* embedding values and weights are abstracted to 0..RowMod-1
RowMod == 5

(* ------------------------- program constants --------------------------- *)
DefaultWindow == 5
DefaultHidden == 200
DefaultNgrams == 2
\* --alpha default 0.5, in percent
DefaultAlphaPct == 50
\* report_intervals = max(args.iterations / 200, 1)
ReportDivisor == 200
\* report_intervals = 10000    # DEBUG
ReportIntervalDebug == 10000

(* ------------------------------ helpers -------------------------------- *)
Max(a, b) == IF a >= b THEN a ELSE b

Tokens == 1..NumTokens
LRs == 1..MaxLR
EpochChoices == (0..MaxEpochs) \cup {BigEpochs}

\* the token of the i-th sentence of the corpus
TokenOf(i) == ((i - 1) % NumTokens) + 1

\* Embeddings(size, vocab=tokens, variant): random rows under np.random.seed(42),
\* hence the same rows in every run
InitTable == [t \in Tokens |-> t % RowMod]
EmptyTable == [t \in Tokens |-> 0]

VARIABLES
  args,            \* parsed command line (vocab, vectors, load: path given or not)
  nSent,           \* number of sentences reader.read(args.train) found
  vocabExisted,    \* os.path.exists(args.vocab) at startup
  ckpt,            \* content of the file named by --load
  pc,              \* position of the script
  crashedIn,       \* phase in which the process was killed, "" if it was not
  err,             \* the uncaught exception that ended the run, "" if none
  loaded_vocab,    \* the script's flag of the same name
  vocabOps,        \* reader calls made to obtain the vocabulary, in order
  vocabFile,       \* vocabulary file: "absent", "startup" or "written"
  storeTable,      \* rows of the table held by the startup Embeddings object
  trainer,         \* the SentimentTrainer: hyperparameters, weights, table reference
  loadedTable,     \* rows of the table deserialized with a loaded trainer
  saverSet,        \* trainer.saver has been registered
  report_intervals,\* the script's variable of the same name
  trainEpochs,     \* epoch count received by train
  trainInterval,   \* report interval received by train
  cacheOn,         \* cache flag of the stream returned by converter.generator
  cache,           \* the stream's buffer of converted sentences
  extractCalls,    \* number of extractor invocations made by the stream
  firstPass,       \* converted sentences yielded by the first pass, in order
  curPass,         \* converted sentences yielded so far by the current pass
  processed,       \* sentences processed by train, over the whole call
  saverRuns,       \* invocations of trainer.saver
  lastBoundary,    \* count of processed sentences at the latest of them
  saves,           \* save operations performed, in order
  vectorsFile,     \* vectors file
  modelFile        \* checkpoint file at args.output

vars == <<args, nSent, vocabExisted, ckpt, pc, crashedIn, err, loaded_vocab,
          vocabOps, vocabFile, storeTable, trainer, loadedTable, saverSet,
          report_intervals, trainEpochs, trainInterval, cacheOn, cache,
          extractCalls, firstPass, curPass, processed, saverRuns, lastBoundary,
          saves, vectorsFile, modelFile>>

(* --------------------------- trainer state ----------------------------- *)
NoTrainer ==
  [learning_rate |-> 0, left_context |-> 0, right_context |-> 0, hidden |-> 0,
   ngrams |-> 0, alpha |-> 0, weights |-> 0, table |-> "none"]

\* SentimentTrainer(converter, args.learning_rate, args.window/2, args.window/2,
\*                  args.hidden, args.ngrams, args.alpha): the trainer keeps a
\* reference to the converter's embedding table
FreshTrainer(a) ==
  [learning_rate |-> a.learning_rate,
   left_context  |-> a.window \div 2,
   right_context |-> a.window \div 2,
   hidden        |-> a.hidden,
   ngrams        |-> a.ngrams,
   alpha         |-> a.alpha,
   weights       |-> 0,
   table         |-> "store"]

NoFile == [exists |-> FALSE, state |-> NoTrainer, rows |-> EmptyTable, processed |-> 0]
NoVectors == [exists |-> FALSE, rows |-> EmptyTable]

\* save_vectors(path): the rows, in vocabulary order
SavedVectors(rows) == [exists |-> TRUE, rows |-> rows]

\* trainer.save(path): the full trainer state with the rows of its table
SavedCheckpoint(t, rows, n) ==
  [exists |-> TRUE, state |-> [t EXCEPT !.table = "loaded"], rows |-> rows,
   processed |-> n]

\* the checkpoint an earlier run left behind: other hyperparameters, some
\* training done
EarlierCheckpoint(l) ==
  SavedCheckpoint(
    [learning_rate |-> l, left_context |-> (DefaultWindow + 2) \div 2,
     right_context |-> (DefaultWindow + 2) \div 2,
     hidden |-> DefaultHidden \div 2, ngrams |-> DefaultNgrams - 1,
     alpha |-> DefaultAlphaPct \div 2, weights |-> 1, table |-> "loaded"],
    [t \in Tokens |-> (t + 1) % RowMod], 1)

\* variant: the learning rate recorded in the checkpoint is kept
LoadedTrainerKeepsRate(c, a) == c.state

\* SentimentTrainer.load(args.load) followed by
\* trainer.learning_rate = args.learning_rate: everything else is the file's
LoadedTrainer(c, a) == [c.state EXCEPT !.learning_rate = a.learning_rate]

\* rows of the table the trainer updates
TrainerRows == IF trainer.table = "store" THEN storeTable ELSE loadedTable

(* --------------------------- script conditions ------------------------- *)
\* variant: the existence test is left out
ShouldLoadVocabAlways(vocabArg, exists) == vocabArg

\* if args.vocab and os.path.exists(args.vocab):
ShouldLoadVocab(vocabArg, exists) == vocabArg /\ exists

\* variant: the loaded_vocab test is left out
ShouldSaveVocabAlways(vocabArg, loaded) == vocabArg

\* if args.vocab and not loaded_vocab:
ShouldSaveVocab(vocabArg, loaded) == vocabArg /\ ~loaded

\* if args.vectors:
ShouldSaveVectors(vectorsArg) == vectorsArg

\* report_intervals = max(args.iterations / 200, 1)
ComputedInterval(iterations) == Max(iterations \div ReportDivisor, 1)

\* variant: the computed interval is kept
KeptInterval(computed) == computed

\* report_intervals = 10000    # DEBUG
OverriddenInterval(computed) == ReportIntervalDebug

\* variant: the stream is created without caching
CacheArgOff == FALSE

\* converter.generator(reader.sentences, cache=True)
CacheArg == TRUE

\* variant: at least one epoch is always trained
EpochsArgAtLeastOne(a) == Max(a.iterations, 1)

\* trainer.train(converted_sentences, args.iterations, report_intervals, ...)
EpochsArg(a) == a.iterations

(* ------------------------------- saver --------------------------------- *)
\* names the body of save(trainer) can resolve: its parameter, the two
\* variables of the enclosing saver(model_file, vectors_file), and the
\* module's own top-level names
SaveScope ==
  {"trainer", "model_file", "vectors_file",
   "create_trainer", "saver", "logging", "np", "argparse", "sys", "os"}

\* the name tested by the if of save(trainer)
SaveTestedName == "vector_file"

\* one invocation of save(trainer): the exception it raises ("" if none) and
\* the saves it performs, in order
SaveOutcome(vectorsArg) ==
  IF SaveTestedName \notin SaveScope
  THEN [raised |-> "NameError", events |-> <<>>]
  ELSE [raised |-> "",
        events |-> (IF vectorsArg THEN <<"saver.save_vectors">> ELSE <<>>)
                   \o <<"saver.save">>]

(* ------------------------------- stream -------------------------------- *)
\* Converter.convert(sentence): the embedding lookup of the sentence's token
Convert(i) == storeTable[TokenOf(i)]

\* the sentence the next step of train processes (1..nSent)
NextSentence == (processed % nSent) + 1

\* full passes over the stream completed by train
PassesDone == processed \div nSent

(* -------------------------------- Init --------------------------------- *)
ArgSets ==
  [vocab : BOOLEAN, vectors : BOOLEAN, load : BOOLEAN, learning_rate : LRs,
   iterations : EpochChoices, window : {DefaultWindow}, hidden : {DefaultHidden},
   ngrams : {DefaultNgrams}, alpha : {DefaultAlphaPct}]

Init ==
  /\ args \in ArgSets
  /\ nSent \in 1..MaxSentences
  /\ vocabExisted \in (IF args.vocab THEN BOOLEAN ELSE {FALSE})
  /\ ckpt \in (IF args.load
               THEN {NoFile} \cup {EarlierCheckpoint(l) : l \in LRs}
               ELSE {NoFile})
  /\ pc = "vocab"
  /\ crashedIn = ""
  /\ err = ""
  /\ loaded_vocab = FALSE
  /\ vocabOps = <<>>
  /\ vocabFile = IF vocabExisted THEN "startup" ELSE "absent"
  /\ storeTable = EmptyTable
  /\ trainer = NoTrainer
  /\ loadedTable = EmptyTable
  /\ saverSet = FALSE
  /\ report_intervals = 0
  /\ trainEpochs = 0
  /\ trainInterval = 0
  /\ cacheOn = FALSE
  /\ cache = <<>>
  /\ extractCalls = 0
  /\ firstPass = <<>>
  /\ curPass = <<>>
  /\ processed = 0
  /\ saverRuns = 0
  /\ lastBoundary = 0
  /\ saves = <<>>
  /\ vectorsFile = NoVectors
  /\ modelFile = NoFile

inputs == <<args, nSent, vocabExisted, ckpt>>
saverObs == <<saverRuns, lastBoundary>>
streamVars == <<cacheOn, cache, extractCalls, firstPass, curPass>>
fileVars == <<vocabFile, vectorsFile, modelFile>>
trainArgs == <<report_intervals, trainEpochs, trainInterval>>

(* ------------------------------ startup -------------------------------- *)
\* lines 138-145: load the vocabulary if a path is given and the file
\* exists, build it otherwise; reader.load_vocabulary of a missing file
\* raises
ChooseVocabulary ==
  /\ pc = "vocab"
  /\ IF ShouldLoadVocab(args.vocab, vocabExisted)
     THEN /\ loaded_vocab' = TRUE
          /\ vocabOps' = Append(vocabOps, "load_vocabulary")
          /\ IF vocabFile = "absent"
             THEN pc' = "error" /\ err' = "NotFound(vocabulary)"
             ELSE pc' = "embeddings" /\ err' = err
     ELSE /\ loaded_vocab' = FALSE
          /\ vocabOps' = Append(vocabOps, "create_vocabulary")
          /\ pc' = "embeddings" /\ err' = err
  /\ UNCHANGED <<inputs, crashedIn, storeTable, trainer, loadedTable, saverSet,
                 trainArgs, streamVars, processed, saverObs, saves, fileVars>>

\* lines 146-152: the Embeddings object and the Converter around it
BuildEmbeddings ==
  /\ pc = "embeddings"
  /\ storeTable' = InitTable
  /\ pc' = "create_trainer"
  /\ UNCHANGED <<inputs, crashedIn, err, loaded_vocab, vocabOps, trainer,
                 loadedTable, saverSet, trainArgs, streamVars, processed,
                 saverObs, saves, fileVars>>

\* line 154, create_trainer (lines 33-55)
CreateTrainer ==
  /\ pc = "create_trainer"
  /\ IF args.load
     THEN IF ckpt.exists
          THEN /\ trainer' = LoadedTrainer(ckpt, args)
               /\ loadedTable' = ckpt.rows
               /\ saverSet' = TRUE
               /\ pc' = "interval" /\ err' = err
          ELSE /\ pc' = "error" /\ err' = "NotFound(checkpoint)"
               /\ UNCHANGED <<trainer, loadedTable, saverSet>>
     ELSE /\ trainer' = FreshTrainer(args)
          /\ saverSet' = TRUE
          /\ pc' = "interval" /\ err' = err
          /\ UNCHANGED loadedTable
  /\ UNCHANGED <<inputs, crashedIn, loaded_vocab, vocabOps, storeTable,
                 trainArgs, streamVars, processed, saverObs, saves, fileVars>>

\* line 156
ComputeInterval ==
  /\ pc = "interval"
  /\ report_intervals' = ComputedInterval(args.iterations)
  /\ pc' = "override"
  /\ UNCHANGED <<inputs, crashedIn, err, loaded_vocab, vocabOps, storeTable,
                 trainer, loadedTable, saverSet, trainEpochs, trainInterval,
                 streamVars, processed, saverObs, saves, fileVars>>

\* line 157
OverrideInterval ==
  /\ pc = "override"
  /\ report_intervals' = OverriddenInterval(report_intervals)
  /\ pc' = "call_train"
  /\ UNCHANGED <<inputs, crashedIn, err, loaded_vocab, vocabOps, storeTable,
                 trainer, loadedTable, saverSet, trainEpochs, trainInterval,
                 streamVars, processed, saverObs, saves, fileVars>>

\* lines 163-165: the cached stream is created and train is entered
CallTrain ==
  /\ pc = "call_train"
  /\ cacheOn' = CacheArg
  /\ trainEpochs' = EpochsArg(args)
  /\ trainInterval' = report_intervals
  /\ pc' = "train"
  /\ UNCHANGED <<inputs, crashedIn, err, loaded_vocab, vocabOps, storeTable,
                 trainer, loadedTable, saverSet, report_intervals, cache,
                 extractCalls, firstPass, curPass, processed, saverObs, saves,
                 fileVars>>

(* ------------------------------- train --------------------------------- *)
\* the weight update of one processed sentence: additive, scaled by the
\* learning rate, on the network weights and on the row of the sentence's token
UpdatedWeights(w, lr) == (w + lr) % RowMod
UpdatedRows(rows, tok, lr) == [rows EXCEPT ![tok] = (@ + lr) % RowMod]

\* the report-interval test of train, on the count of processed sentences
AtReportBoundary(n, interval) == interval > 0 /\ n % interval = 0

\* one sentence of train: the stream yields its conversion (extracting it, or
\* replaying the buffer when cached), the trainer updates its weights and its
\* embedding table in place, and at a report-interval boundary the saver is due
TrainStep ==
  /\ pc = "train"
  /\ processed < trainEpochs * nSent
  /\ LET i == NextSentence
         replay == cacheOn /\ i <= Len(cache)
         x == IF replay THEN cache[i] ELSE Convert(i)
         n == processed + 1
     IN /\ cache' = IF cacheOn /\ ~replay THEN Append(cache, x) ELSE cache
        /\ extractCalls' = IF replay THEN extractCalls ELSE extractCalls + 1
        /\ firstPass' = IF processed < nSent THEN Append(firstPass, x) ELSE firstPass
        /\ curPass' = IF i = 1 THEN <<x>> ELSE Append(curPass, x)
        /\ trainer' = [trainer EXCEPT
                         !.weights = UpdatedWeights(@, trainer.learning_rate)]
        /\ IF trainer.table = "store"
           THEN /\ storeTable' = UpdatedRows(storeTable, TokenOf(i), trainer.learning_rate)
                /\ UNCHANGED loadedTable
           ELSE /\ loadedTable' = UpdatedRows(loadedTable, TokenOf(i), trainer.learning_rate)
                /\ UNCHANGED storeTable
        /\ processed' = n
        /\ pc' = IF AtReportBoundary(n, trainInterval) THEN "saver" ELSE "train"
  /\ UNCHANGED <<inputs, crashedIn, err, loaded_vocab, vocabOps, saverSet,
                 trainArgs, cacheOn, saverObs, saves, fileVars>>

\* train invokes trainer.saver, the save(trainer) of lines 59-63; an exception
\* it raises is not caught and ends the run
SaverCall ==
  /\ pc = "saver"
  /\ saverSet
  /\ saverRuns' = saverRuns + 1
  /\ lastBoundary' = processed
  /\ LET o == SaveOutcome(args.vectors)
     IN IF o.raised # ""
        THEN /\ pc' = "error"
             /\ err' = o.raised
             /\ UNCHANGED <<saves, vectorsFile, modelFile>>
        ELSE /\ pc' = "train"
             /\ err' = err
             /\ saves' = saves \o o.events
             /\ vectorsFile' = IF args.vectors THEN SavedVectors(TrainerRows)
                                               ELSE vectorsFile
             /\ modelFile' = SavedCheckpoint(trainer, TrainerRows, processed)
  /\ UNCHANGED <<inputs, crashedIn, loaded_vocab, vocabOps, vocabFile, storeTable,
                 trainer, loadedTable, saverSet, trainArgs, streamVars, processed>>

\* train returns after epoch_count passes over the stream
TrainReturn ==
  /\ pc = "train"
  /\ processed = trainEpochs * nSent
  /\ pc' = "save_vocab"
  /\ UNCHANGED <<inputs, crashedIn, err, loaded_vocab, vocabOps, storeTable,
                 trainer, loadedTable, saverSet, trainArgs, streamVars, processed,
                 saverObs, saves, fileVars>>

(* ---------------------------- final saves ------------------------------ *)
\* lines 169-170
FinalSaveVocabulary ==
  /\ pc = "save_vocab"
  /\ IF ShouldSaveVocab(args.vocab, loaded_vocab)
     THEN /\ saves' = Append(saves, "final.save_vocabulary")
          /\ vocabFile' = "written"
     ELSE UNCHANGED <<saves, vocabFile>>
  /\ pc' = "save_vectors"
  /\ UNCHANGED <<inputs, crashedIn, err, loaded_vocab, vocabOps, storeTable,
                 trainer, loadedTable, saverSet, trainArgs, streamVars, processed,
                 saverObs, vectorsFile, modelFile>>

\* lines 171-172: embeddings.save_vectors writes the startup store's rows
FinalSaveVectors ==
  /\ pc = "save_vectors"
  /\ IF ShouldSaveVectors(args.vectors)
     THEN /\ saves' = Append(saves, "final.save_vectors")
          /\ vectorsFile' = SavedVectors(storeTable)
     ELSE UNCHANGED <<saves, vectorsFile>>
  /\ pc' = "save_model"
  /\ UNCHANGED <<inputs, crashedIn, err, loaded_vocab, vocabOps, storeTable,
                 trainer, loadedTable, saverSet, trainArgs, streamVars, processed,
                 saverObs, vocabFile, modelFile>>

\* line 173
FinalSaveModel ==
  /\ pc = "save_model"
  /\ saves' = Append(saves, "final.save")
  /\ modelFile' = SavedCheckpoint(trainer, TrainerRows, processed)
  /\ pc' = "done"
  /\ UNCHANGED <<inputs, crashedIn, err, loaded_vocab, vocabOps, storeTable,
                 trainer, loadedTable, saverSet, trainArgs, streamVars, processed,
                 saverObs, vocabFile, vectorsFile>>

(* ------------------------------- crash --------------------------------- *)
Phase(p) ==
  IF p \in {"train", "saver"} THEN "train"
  ELSE IF p \in {"save_vocab", "save_vectors", "save_model"} THEN "final"
  ELSE "startup"

\* the process is killed: what it held in memory is gone, the files and what
\* has been observed of the run remain
Crash ==
  /\ pc \notin {"done", "error", "crashed"}
  /\ pc' = "crashed"
  /\ crashedIn' = Phase(pc)
  /\ loaded_vocab' = FALSE
  /\ storeTable' = EmptyTable
  /\ trainer' = NoTrainer
  /\ loadedTable' = EmptyTable
  /\ saverSet' = FALSE
  /\ report_intervals' = 0
  /\ trainEpochs' = 0
  /\ trainInterval' = 0
  /\ cacheOn' = FALSE
  /\ cache' = <<>>
  /\ extractCalls' = 0
  /\ firstPass' = <<>>
  /\ curPass' = <<>>
  /\ processed' = 0
  /\ UNCHANGED <<inputs, err, vocabOps, saverObs, saves, fileVars>>

Next ==
  \/ ChooseVocabulary
  \/ BuildEmbeddings
  \/ CreateTrainer
  \/ ComputeInterval
  \/ OverrideInterval
  \/ CallTrain
  \/ TrainStep
  \/ SaverCall
  \/ TrainReturn
  \/ FinalSaveVocabulary
  \/ FinalSaveVectors
  \/ FinalSaveModel
  \/ Crash

Spec == Init /\ [][Next]_vars

(* ------------------------------ properties ----------------------------- *)
AfterTrainPcs == {"save_vocab", "save_vectors", "save_model", "done"}

\* train has been entered and the process is still alive or ended on its own
TrainEntered == pc \in {"train", "saver"} \cup AfterTrainPcs \/ (pc = "error" /\ saverRuns > 0)

\* train is over: it returned, or an exception raised inside it ended the run
TrainOver == pc \in AfterTrainPcs \/ (pc = "error" /\ saverRuns > 0)

SaverEvents == SelectSeq(saves, LAMBDA e : e \in {"saver.save_vectors", "saver.save"})
FinalEvents ==
  SelectSeq(saves, LAMBDA e : e \in {"final.save_vocabulary", "final.save_vectors",
                                     "final.save"})

IsPrefix(a, b) == Len(a) <= Len(b) /\ \A j \in 1..Len(a) : a[j] = b[j]

\* what one saver invocation is to perform, in order
SaverExpected ==
  (IF args.vectors THEN <<"saver.save_vectors">> ELSE <<>>) \o <<"saver.save">>

\* C1: every invocation of the checkpoint saver performs save_vectors if and
\* only if a vectors path was configured, and then the full trainer-state
\* save: the saves made by the saver are that sequence, once per invocation.
C1_SaverSavesVectorsThenModel ==
  /\ Len(SaverEvents) = saverRuns * Len(SaverExpected)
  /\ \A j \in 1..Len(SaverEvents) :
       SaverEvents[j] = SaverExpected[((j - 1) % Len(SaverExpected)) + 1]

\* C2: the table the trainer updates is the table of the Embeddings object
\* built at startup, in the restored path as in the fresh path, so the
\* vectors written by the final embeddings.save_vectors are the trainer's.
C2_TrainerUpdatesStoreTable ==
  /\ trainer.table # "none" => trainer.table = "store"
  /\ (pc = "done" /\ args.vectors) => vectorsFile.rows = TrainerRows

\* C3: exactly one of load and build happens per run: the vocabulary is
\* loaded when a path is configured and the file exists, and built otherwise,
\* the run never ending with NotFound for the vocabulary.
C3_VocabularyLoadedOrBuilt ==
  /\ Len(vocabOps) <= 1
  /\ err # "NotFound(vocabulary)"
  /\ pc \notin {"vocab", "crashed"} =>
       vocabOps = <<IF args.vocab /\ vocabExisted THEN "load_vocabulary"
                                                  ELSE "create_vocabulary">>

C3_Witness ==
  /\ pc = "done"
  /\ args.vocab /\ ~vocabExisted
  /\ vocabOps = <<"create_vocabulary">>

TokenCount(t, k) ==
  (k \div nSent) * Cardinality({i \in 1..nSent : TokenOf(i) = t})
  + Cardinality({i \in 1..(k % nSent) : TokenOf(i) = t})

C6_CachedStreamReplays ==
  /\ IsPrefix(curPass, firstPass)
  /\ extractCalls <= nSent
  /\ processed >= nSent => extractCalls = nSent /\ Len(firstPass) = nSent

C6_Witness ==
  /\ nSent >= 2
  /\ ~args.load
  /\ processed >= 2 * nSent
  /\ Len(curPass) = nSent
  /\ storeTable # InitTable

\* C7: train runs exactly epoch_count full passes over the stream, and the
\* saver has been invoked exactly once for each multiple of report_interval
\* the count of processed sentences has reached.
C7_TrainRunsAllEpochs ==
  /\ pc = "train" => saverRuns = processed \div trainInterval
  /\ TrainOver =>
       /\ processed = args.iterations * nSent
       /\ saverRuns = processed \div trainInterval

\* C8: training with epoch_count = 0 updates no weight, leaves every row of
\* the embedding table as initialized, and triggers no checkpoint save.
C8_ZeroEpochsChangeNothing ==
  (args.iterations = 0 /\ TrainEntered) =>
    /\ processed = 0
    /\ saverRuns = 0
    /\ SaverEvents = <<>>
    /\ storeTable = InitTable
    /\ trainer.weights = (IF args.load THEN ckpt.state.weights ELSE 0)
    /\ args.load => loadedTable = ckpt.rows

C8_Witness ==
  /\ args.iterations = 0
  /\ pc = "done"

\* the final saves a completed run is to make, in order
FinalExpected ==
  (IF args.vocab /\ vocabOps = <<"create_vocabulary">>
   THEN <<"final.save_vocabulary">> ELSE <<>>)
  \o (IF args.vectors THEN <<"final.save_vectors">> ELSE <<>>)
  \o <<"final.save">>

\* C9: the final saves are made only after train has returned, in the order
\* vocabulary (if a path is configured and the vocabulary was built in this
\* run), vectors (if a path is configured), trainer state (always); a
\* vocabulary file that existed at startup is never overwritten.
C9_FinalSavesInOrder ==
  /\ pc = "done" => FinalEvents = FinalExpected
  /\ IsPrefix(FinalEvents, FinalExpected)
  /\ (pc \notin AfterTrainPcs /\ ~(pc = "crashed" /\ crashedIn = "final")) =>
       FinalEvents = <<>>
  /\ vocabExisted => vocabFile = "startup"

C9_Witness ==
  /\ pc = "done"
  /\ args.vocab /\ vocabExisted
  /\ args.vectors
  /\ FinalEvents = <<"final.save_vectors", "final.save">>

\* C10: the report interval train receives is 10000 whatever the epoch
\* count: the interval computed from the epoch count never reaches it.
C10_IntervalIsDebugValue ==
  TrainEntered => trainInterval = ReportIntervalDebug

C10_Witness ==
  /\ pc = "train"
  /\ ComputedInterval(args.iterations) > 1
  /\ trainInterval # ComputedInterval(args.iterations)

====
